---------------------------- MODULE Spec2Model ----------------------------
(***************************************************************************)
(* UILabel (js/lib/famous-web-components/controls/UILabel.js): a text      *)
(* label that owns one child UIElement, forwards content / class / style / *)
(* size requests to it, and re-measures its pixel size in the child's      *)
(* 'deploy' callback.                                                      *)
(*                                                                         *)
(* JavaScript values are encoded as follows:                               *)
(*   an array            -> a sequence ([] is << >>)                       *)
(*   the size flag true  -> TrueDim,  undefined inside a size -> UndefDim  *)
(*   an absent option    -> NoSize                                         *)
(*   an object reference -> a string naming the object (Self, Element)     *)
(***************************************************************************)
EXTENDS Integers, Sequences, FiniteSets, TLC

\* ------------------------------------------------------------ bounds
\* clientWidth / clientHeight reported by the platform range over 1..MaxPixel
MaxPixel == 2
\* number of deploy events in one behaviour
MaxDeploys == 2

\* ------------------------------------------------------------ values
\* `true` as a size component: "measure this dimension" ([true, true])
TrueDim == -1
\* `undefined` as a size component ([undefined, undefined])
UndefDim == -2

TrueSize == <<TrueDim, TrueDim>>
UndefSize == <<UndefDim, UndefDim>>
\* options.size not given
NoSize == << >>
\* no call to surface.setSize has been made by the label yet
Unset == << >>

Self == "label"
Element == "element"

Texts == {"", "A"}
ExplicitSizes == {<<100, 50>>, <<30, 20>>}
ClassLists == {<<"ui-label">>, <<"ui-label", "big">>}
Styles == {[color |-> "red"], [color |-> "blue"]}
Pixels == 1..MaxPixel

\* the options objects a label is constructed with
Options ==
    [text : Texts, size : {NoSize} \cup ExplicitSizes,
     classes : {<<"ui-label">>}, style : {[color |-> "red"]}]

\* a value for `ret` after a method that returns nothing of interest
NoRet == [kind |-> "none"]
NoArg == [kind |-> "none"]

VARIABLES
    options,              \* this.options
    _size,                \* this._size
    _measuredSize,        \* this._measuredSize
    _text,                \* this._text
    _sizeState,           \* value held by this._sizeState
    element_content,      \* content held by this._element
    element_classes,      \* classes held by this._element
    element_style,        \* style held by this._element
    element_size,         \* size last requested through this._element.setSize
    surface_size,         \* size last set through this._element._surface.setSize
    surface_contentDirty, \* this._element._surface._contentDirty
    sizeChangeCount,      \* number of 'sizeChange' events emitted so far
    lastEvent,            \* the last event emitted by the label
    deployWrites,         \* element.setContent calls made by the latest deploy callback
    op,                   \* history: the operation that ran last
    arg,                  \* history: its argument
    ret,                  \* what it returned to its caller
    lastSizeCall,         \* history: the last size-affecting call
    lastTextArg,          \* history: argument of the last setText (or options.text)
    externalWrite         \* history: the surface content was last written from outside the label

labelVars == <<options, _size, _measuredSize, _text, _sizeState>>
surfaceVars == <<element_content, element_classes, element_style, element_size,
                 surface_size, surface_contentDirty>>
eventVars == <<sizeChangeCount, lastEvent>>
progVars == <<labelVars, surfaceVars, eventVars>>
histVars == <<op, arg, ret, lastSizeCall, lastTextArg, externalWrite, deployWrites>>
vars == <<progVars, histVars>>

\* ------------------------------------------------------------ helpers
\* _readSize: this._size[0] = clientWidth; this._size[1] = clientHeight
_readSize(clientWidth, clientHeight) == <<clientWidth, clientHeight>>

\* variant: the flag is left as it was
_invalidateSurface_skipped == surface_contentDirty

\* _invalidateSurface: this._element._surface._contentDirty = true
_invalidateSurface == TRUE

\* the platform's commit resets the flag once the deploy listeners have run
Surface_committedDirty == FALSE

\* variant: `return this._size` -- the caller is handed the label's own array
getSize_result_sameArray == [kind |-> "size", val |-> _size, shared |-> TRUE]

\* getSize: return this._size.slice(0) -- a fresh array, not this._size itself
getSize_result == [kind |-> "size", val |-> _size, shared |-> FALSE]

\* variant: the text is read back from the child element
getText_result_fromElement == [kind |-> "text", val |-> element_content]

\* getText: return this._text
getText_result == [kind |-> "text", val |-> _text]

\* getStyle: return this._element.getStyle()
getStyle_result == [kind |-> "style", val |-> element_style]

\* emit('sizeChange', self), as seen by a listener that calls getSize()
sizeChangeEvent(target, sizeAtEmit) ==
    [type |-> "sizeChange", target |-> target, sizeSeen |-> sizeAtEmit]

NoEvent == [type |-> "none"]

\* ------------------------------------------------------------ construction
\* variant: the explicit options.size is never handed to the element
constructor_ignoresSize(opts) ==
    [ _size |-> << >>,
      _measuredSize |-> IF opts.size # NoSize THEN FALSE ELSE TRUE,
      _text |-> opts.text,
      element_content |-> opts.text,
      element_classes |-> opts.classes,
      element_style |-> opts.style,
      element_size |-> TrueSize ]

\* The fields of a label right after `new UILabel(opts)`.
constructor(opts) ==
    [ _size |-> << >>,
      _measuredSize |-> IF opts.size # NoSize THEN FALSE ELSE TRUE,
      _text |-> opts.text,
      element_content |-> opts.text,
      element_classes |-> opts.classes,
      element_style |-> opts.style,
      \* setSize([true, true]), then setSize(options.size) if there is one
      element_size |-> IF opts.size # NoSize THEN opts.size ELSE TrueSize ]

Init ==
    \E opts \in Options :
        LET c == constructor(opts) IN
        /\ options = opts
        /\ _size = c._size
        /\ _measuredSize = c._measuredSize
        /\ _text = c._text
        /\ _sizeState = << >>
        /\ element_content = c.element_content
        /\ element_classes = c.element_classes
        /\ element_style = c.element_style
        /\ element_size = c.element_size
        /\ surface_size = Unset
        /\ surface_contentDirty = TRUE
        /\ sizeChangeCount = 0
        /\ lastEvent = NoEvent
        /\ deployWrites = 0
        /\ op = "constructor"
        /\ arg = NoArg
        /\ ret = NoRet
        /\ lastSizeCall = "constructor"
        /\ lastTextArg = opts.text
        /\ externalWrite = FALSE

\* ------------------------------------------------------------ operations
\* variant: 'sizeChange' is emitted before the size is read
deployHandler_emitsFirst(clientWidth, clientHeight) ==
    LET measured == _readSize(clientWidth, clientHeight)
        differs == element_content # _text
    IN
    /\ sizeChangeCount < MaxDeploys
    /\ lastEvent' = sizeChangeEvent(Self, _size)
    /\ sizeChangeCount' = sizeChangeCount + 1
    /\ _size' = measured
    /\ _sizeState' = measured
    /\ element_content' = IF differs THEN _text ELSE element_content
    /\ deployWrites' = IF differs THEN 1 ELSE 0
    /\ externalWrite' = IF differs THEN FALSE ELSE externalWrite
    /\ surface_contentDirty' = Surface_committedDirty
    /\ op' = "deploy"
    /\ arg' = <<clientWidth, clientHeight>>
    /\ ret' = NoRet
    /\ UNCHANGED <<options, _measuredSize, _text, element_classes, element_style,
                   element_size, surface_size, lastSizeCall, lastTextArg>>

\* variant: the text is re-applied on every deploy, without the comparison
deployHandler_alwaysWrites(clientWidth, clientHeight) ==
    LET measured == _readSize(clientWidth, clientHeight)
        differs == element_content # _text
    IN
    /\ sizeChangeCount < MaxDeploys
    /\ _size' = measured
    /\ _sizeState' = measured
    /\ element_content' = _text
    /\ deployWrites' = 1
    /\ externalWrite' = FALSE
    /\ sizeChangeCount' = sizeChangeCount + 1
    /\ lastEvent' = sizeChangeEvent(Self, measured)
    /\ surface_contentDirty' = Surface_committedDirty
    /\ op' = "deploy"
    /\ arg' = <<clientWidth, clientHeight>>
    /\ ret' = NoRet
    /\ UNCHANGED <<options, _measuredSize, _text, element_classes, element_style,
                   element_size, surface_size, lastSizeCall, lastTextArg>>

\* The 'deploy' listener bound in _bindEvents, run by the platform with the
\* surface's current clientWidth / clientHeight.
deployHandler(clientWidth, clientHeight) ==
    LET measured == _readSize(clientWidth, clientHeight)
        differs == element_content # _text
    IN
    /\ sizeChangeCount < MaxDeploys
    /\ _size' = measured
    /\ _sizeState' = measured
    /\ element_content' = IF differs THEN _text ELSE element_content
    /\ deployWrites' = IF differs THEN 1 ELSE 0
    /\ externalWrite' = IF differs THEN FALSE ELSE externalWrite
    /\ sizeChangeCount' = sizeChangeCount + 1
    /\ lastEvent' = sizeChangeEvent(Self, measured)
    /\ surface_contentDirty' = Surface_committedDirty
    /\ op' = "deploy"
    /\ arg' = <<clientWidth, clientHeight>>
    /\ ret' = NoRet
    /\ UNCHANGED <<options, _measuredSize, _text, element_classes, element_style,
                   element_size, surface_size, lastSizeCall, lastTextArg>>

getSize ==
    /\ ret' = getSize_result
    /\ op' = "getSize"
    /\ arg' = NoArg
    /\ UNCHANGED <<progVars, lastSizeCall, lastTextArg, externalWrite, deployWrites>>

\* variant: _measuredSize is not flipped
setSize_keepsMeasured(size) ==
    /\ surface_contentDirty' = _invalidateSurface
    /\ surface_size' = UndefSize
    /\ element_size' = size
    /\ op' = "setSize"
    /\ arg' = size
    /\ ret' = [kind |-> "ref", val |-> Self]
    /\ lastSizeCall' = "setSize"
    /\ UNCHANGED <<options, _size, _measuredSize, _text, _sizeState, element_content,
                   element_classes, element_style, eventVars, lastTextArg, externalWrite,
                   deployWrites>>

\* variant: the surface's [true, true] is not cleared first
setSize_keepsSurfaceSize(size) ==
    /\ surface_contentDirty' = _invalidateSurface
    /\ element_size' = size
    /\ _measuredSize' = FALSE
    /\ op' = "setSize"
    /\ arg' = size
    /\ ret' = [kind |-> "ref", val |-> Self]
    /\ lastSizeCall' = "setSize"
    /\ UNCHANGED <<options, _size, _text, _sizeState, element_content, element_classes,
                   element_style, surface_size, eventVars, lastTextArg, externalWrite,
                   deployWrites>>

setSize(size) ==
    \* `if (!this._element) return;` -- the element exists once constructed
    /\ surface_contentDirty' = _invalidateSurface
    /\ surface_size' = UndefSize
    /\ element_size' = size
    /\ _measuredSize' = FALSE
    /\ op' = "setSize"
    /\ arg' = size
    /\ ret' = [kind |-> "ref", val |-> Self]
    /\ lastSizeCall' = "setSize"
    /\ UNCHANGED <<options, _size, _text, _sizeState, element_content, element_classes,
                   element_style, eventVars, lastTextArg, externalWrite, deployWrites>>

\* variant: no early return when already measured
setAutoSize_noGuard ==
    /\ surface_contentDirty' = _invalidateSurface
    /\ surface_size' = TrueSize
    /\ _measuredSize' = TRUE
    /\ op' = "setAutoSize"
    /\ arg' = NoArg
    /\ ret' = NoRet
    /\ lastSizeCall' = "setAutoSize"
    /\ UNCHANGED <<options, _size, _text, _sizeState, element_content, element_classes,
                   element_style, element_size, eventVars, lastTextArg, externalWrite,
                   deployWrites>>

setAutoSize ==
    /\ IF _measuredSize
         THEN UNCHANGED <<surface_contentDirty, surface_size, _measuredSize>>
         ELSE /\ surface_contentDirty' = _invalidateSurface
              /\ surface_size' = TrueSize
              /\ _measuredSize' = TRUE
    /\ op' = "setAutoSize"
    /\ arg' = NoArg
    /\ ret' = NoRet
    /\ lastSizeCall' = "setAutoSize"
    /\ UNCHANGED <<options, _size, _text, _sizeState, element_content, element_classes,
                   element_style, element_size, eventVars, lastTextArg, externalWrite,
                   deployWrites>>

setClasses(classList) ==
    /\ surface_contentDirty' = _invalidateSurface
    /\ element_classes' = classList
    /\ op' = "setClasses"
    /\ arg' = classList
    /\ ret' = [kind |-> "ref", val |-> Element]
    /\ UNCHANGED <<labelVars, element_content, element_style, element_size, surface_size,
                   eventVars, lastSizeCall, lastTextArg, externalWrite, deployWrites>>

setStyle(style) ==
    /\ surface_contentDirty' = _invalidateSurface
    /\ element_style' = style
    /\ op' = "setStyle"
    /\ arg' = style
    /\ ret' = [kind |-> "ref", val |-> Element]
    /\ UNCHANGED <<labelVars, element_content, element_classes, element_size, surface_size,
                   eventVars, lastSizeCall, lastTextArg, externalWrite, deployWrites>>

getStyle ==
    /\ ret' = getStyle_result
    /\ op' = "getStyle"
    /\ arg' = NoArg
    /\ UNCHANGED <<progVars, lastSizeCall, lastTextArg, externalWrite, deployWrites>>

\* variant: the text is stored but not forwarded to the element
setText_notForwarded(t) ==
    /\ _text' = t
    /\ surface_contentDirty' = _invalidateSurface
    /\ op' = "setText"
    /\ arg' = t
    /\ ret' = NoRet
    /\ lastTextArg' = t
    /\ UNCHANGED <<options, _size, _measuredSize, _sizeState, element_content,
                   element_classes, element_style, element_size, surface_size, eventVars,
                   lastSizeCall, externalWrite, deployWrites>>

setText(t) ==
    /\ _text' = t
    /\ surface_contentDirty' = _invalidateSurface
    /\ element_content' = t
    /\ op' = "setText"
    /\ arg' = t
    /\ ret' = NoRet
    /\ lastTextArg' = t
    /\ externalWrite' = FALSE
    /\ UNCHANGED <<options, _size, _measuredSize, _sizeState, element_classes, element_style,
                   element_size, surface_size, eventVars, lastSizeCall, deployWrites>>

getText ==
    /\ ret' = getText_result
    /\ op' = "getText"
    /\ arg' = NoArg
    /\ UNCHANGED <<progVars, lastSizeCall, lastTextArg, externalWrite, deployWrites>>

\* ------------------------------------------------------------ environment
\* A caller of getSize() writes 0 into the first slot of the array it was
\* handed.  If that array were this._size itself the label would see the write.
callerWritesReturnedSize ==
    /\ ret.kind = "size"
    /\ IF ret.val = << >> THEN TRUE ELSE ret.val[1] # 0
    /\ LET written == IF ret.val = << >> THEN <<0>> ELSE [ret.val EXCEPT ![1] = 0]
       IN /\ ret' = [ret EXCEPT !.val = written]
          /\ _size' = IF ret.shared THEN written ELSE _size
    /\ op' = "callerWrite"
    /\ arg' = NoArg
    /\ UNCHANGED <<options, _measuredSize, _text, _sizeState, surfaceVars, eventVars,
                   lastSizeCall, lastTextArg, externalWrite, deployWrites>>

\* Code other than the label calls setContent on the label's child element.
externalSetContent(c) ==
    /\ element_content' = c
    /\ externalWrite' = TRUE
    /\ op' = "externalSetContent"
    /\ arg' = c
    /\ ret' = NoRet
    /\ UNCHANGED <<labelVars, element_classes, element_style, element_size, surface_size,
                   surface_contentDirty, eventVars, lastSizeCall, lastTextArg, deployWrites>>

Next ==
    \/ \E w \in Pixels, h \in Pixels : deployHandler(w, h)
    \/ getSize
    \/ \E size \in ExplicitSizes : setSize(size)
    \/ setAutoSize
    \/ \E classList \in ClassLists : setClasses(classList)
    \/ \E style \in Styles : setStyle(style)
    \/ getStyle
    \/ \E t \in Texts : setText(t)
    \/ getText
    \/ callerWritesReturnedSize
    \/ \E c \in Texts : externalSetContent(c)

Spec == Init /\ [][Next]_vars

\* ------------------------------------------------------------ properties
Setters == {"setSize", "setAutoSize", "setClasses", "setStyle", "setText"}

\* C1: _measuredSize is true exactly when the last size-affecting call was
\* setAutoSize, or the constructor without options.size, with no setSize since.
C1_MeasuredIffLastAuto ==
    _measuredSize <=>
        \/ lastSizeCall = "setAutoSize"
        \/ (lastSizeCall = "constructor" /\ options.size = NoSize)

C1_Witness ==
    /\ options.size # NoSize
    /\ lastSizeCall = "setAutoSize"
    /\ _measuredSize
    /\ sizeChangeCount > 0

\* C2: right after construction, an explicit options.size gives _measuredSize
\* false and the element sized to that pair; no options.size gives
\* _measuredSize true and the element sized [true, true].
C2_AfterConstruction ==
    op = "constructor" =>
        IF options.size # NoSize
          THEN ~_measuredSize /\ element_size = options.size
          ELSE _measuredSize /\ element_size = TrueSize

C2_Witness ==
    /\ op = "constructor"
    /\ options.size = <<100, 50>>
    /\ element_size = <<100, 50>>
    /\ ~_measuredSize

\* C3: a deploy event with reported (clientWidth, clientHeight) makes getSize()
\* return that pair and emits one sizeChange carrying the label, emitted when
\* the size is already stored; no other operation emits anything.
C3_DeployStoresThenNotifies ==
    [][ IF op' = "deploy"
          THEN /\ getSize_result'.val = arg'
               /\ sizeChangeCount' = sizeChangeCount + 1
               /\ lastEvent' = [type |-> "sizeChange", target |-> Self, sizeSeen |-> arg']
          ELSE /\ sizeChangeCount' = sizeChangeCount
               /\ lastEvent' = lastEvent ]_vars

C3_Witness ==
    /\ op = "deploy"
    /\ arg = <<2, 1>>
    /\ _size = <<2, 1>>
    /\ sizeChangeCount = 2
    /\ lastEvent.sizeSeen = <<2, 1>>

\* C4: setSize(pair) leaves what getSize() returns unchanged, marks the surface
\* stale, sets the surface size to [undefined, undefined], hands the pair to
\* the element and sets _measuredSize to false.
C4_SetSizeEffects ==
    [][ op' = "setSize" =>
            /\ getSize_result'.val = getSize_result.val
            /\ surface_contentDirty'
            /\ surface_size' = UndefSize
            /\ element_size' = arg'
            /\ ~_measuredSize' ]_vars

C4_Witness ==
    /\ op = "setSize"
    /\ sizeChangeCount = 1
    /\ _size = <<1, 2>>
    /\ element_size = <<100, 50>>
    /\ surface_size = UndefSize

\* C5: setAutoSize on an already measured label changes nothing of the label,
\* the surface or the events, so a second call in a row is a no-op; on a
\* fixed-size label it marks the surface stale, sets the surface size to
\* [true, true] and sets _measuredSize.
C5_SetAutoSizeIdempotent ==
    [][ /\ op' = "setAutoSize" =>
              IF _measuredSize
                THEN UNCHANGED progVars
                ELSE /\ surface_contentDirty'
                     /\ surface_size' = TrueSize
                     /\ _measuredSize'
        /\ (op = "setAutoSize" /\ op' = "setAutoSize") => UNCHANGED progVars ]_vars

C5_Witness ==
    /\ op = "setAutoSize"
    /\ surface_size = TrueSize
    /\ ~surface_contentDirty
    /\ _measuredSize

\* C6: getText() returns the argument of the latest setText, or options.text
\* when there was none, whatever else happened in between.
C6_GetTextIsLastSetText ==
    /\ getText_result.val = lastTextArg
    /\ op = "getText" => ret.val = lastTextArg

C6_Witness ==
    /\ op = "getText"
    /\ ret.val = "A"
    /\ options.text = ""
    /\ sizeChangeCount = 0
    /\ element_content # "A"

\* C7: the deploy callback writes the stored text to the element once when the
\* element's content differs from it and not at all otherwise; afterwards the
\* content equals the stored text, which the callback does not change.
C7_DeployReappliesOnce ==
    [][ op' = "deploy" =>
            /\ deployWrites' = IF element_content # _text THEN 1 ELSE 0
            /\ element_content' = _text'
            /\ _text' = _text ]_vars

C7_Witness ==
    /\ op = "deploy"
    /\ deployWrites = 1
    /\ element_content = _text

\* C8 as stated: after any of setSize, setAutoSize, setClasses, setStyle and
\* setText returns, the surface's content-dirty flag is true.
C8_EverySetterInvalidates ==
    op \in Setters => surface_contentDirty

\* C8 amended: setSize, setClasses, setStyle and setText always leave the flag
\* true; setAutoSize leaves it true when the label was fixed-sized and leaves
\* it as it was when the label was already measured.
C8_SettersInvalidateUnlessAlreadyAuto ==
    [][ /\ op' \in Setters \ {"setAutoSize"} => surface_contentDirty'
        /\ op' = "setAutoSize" =>
              IF _measuredSize
                THEN surface_contentDirty' = surface_contentDirty
                ELSE surface_contentDirty' ]_vars

C8_Witness ==
    /\ op = "setClasses"
    /\ sizeChangeCount = 1
    /\ surface_contentDirty
    /\ _measuredSize

\* C9: getSize() hands out a copy and changes nothing; this._size changes only
\* in the deploy callback, so neither a caller writing into a returned pair nor
\* any other call changes it; before the first deploy getSize() returns [].
C9_SizeWrittenOnlyByDeploy ==
    /\ [](sizeChangeCount = 0 => getSize_result.val = << >>)
    /\ [][ /\ _size' # _size => op' = "deploy"
           /\ op' = "getSize" => (ret'.val = _size /\ UNCHANGED progVars) ]_vars

C9_Witness ==
    /\ op = "callerWrite"
    /\ ret.val = <<0, 1>>
    /\ _size = <<2, 1>>

\* C10: unless code outside the label wrote the element's content last, the
\* content equals the stored text, and the deploy callback re-applies the text
\* only after such an outside write.
C10_ContentFollowsText ==
    /\ [](~externalWrite => element_content = _text)
    /\ [][ (op' = "deploy" /\ deployWrites' = 1) => externalWrite ]_vars

C10_Witness ==
    /\ op = "deploy"
    /\ ~externalWrite
    /\ deployWrites = 0
    /\ lastTextArg # options.text
    /\ element_content = _text

=============================================================================
